---- MODULE Spec2Model ----
(***************************************************************************)
(* Model of src/okta/factor.rs: the Factor enum and its decoding, the      *)
(* FactorVerificationRequest wire encoding, Display for Factor, and        *)
(* Factor::verify.                                                         *)
(*                                                                         *)
(* Rust values are modelled as follows.                                    *)
(*   Option<T>     : <<>> for None, <<x>> for Some(x)                      *)
(*   JSON value    : <<"null">> or <<"string", s>>                         *)
(*   JSON object   : a function from its keys to JSON values               *)
(*   text of a body: <<"garbage">> or <<"object", o>>                      *)
(* Construction of the reqwest client (line 188) sends nothing and is not  *)
(* modelled; failure to initialise the TLS backend is outside the model.   *)
(***************************************************************************)
EXTENDS Integers, Sequences, FiniteSets, TLC

VARIABLES
    self,         \* the Factor verify or fmt is called on
    request,      \* the FactorVerificationRequest given to verify or encoded
    pc,           \* "call" before verify runs, then "returned" or "panicked"
    result,       \* the Result verify returned
    wire,         \* the requests the call handed to the transport, in order
    response,     \* what the transport answered to the request
    transitions,  \* changes of pc so far
    encoded,      \* Option: the JSON object of a request
    decoded,      \* the Result of decoding that object
    payload,      \* a Factor payload to decode
    factor,       \* the Result of decoding the payload
    text          \* Option: what fmt wrote

vars == <<self, request, pc, result, wire, response, transitions,
          encoded, decoded, payload, factor, text>>

\* Longest Multi link collection the model enumerates.
MaxLinks == 2

None == <<>>
Some(x) == <<x>>

JNull == <<"null">>
JStr(s) == <<"string", s>>
JNum(n) == <<"number", n>>
IsJStr(v) == v[1] = "string"

EmptyObject == <<>>

-----------------------------------------------------------------------------
(* Input domains *)

Urls == {"https://okta/verify/1", "https://okta/verify/2"}

Relations == {"verify", "self"}

Strings == {"t", "123456"}

Kinds == {"Push", "Sms", "Call", "Token", "Totp", "Hotp", "Question", "Web"}

\* OktaLinks::Single(link) and OktaLinks::Multi(links); only href is used.
Single(u) == [kind |-> "Single", hrefs |-> <<u>>]
Multi(us) == [kind |-> "Multi", hrefs |-> us]

SeqsUpTo(S, n) == UNION {[1..k -> S] : k \in 0..n}

OktaLinks == {Single(u) : u \in Urls} \cup {Multi(us) : us \in SeqsUpTo(Urls, MaxLinks)}

\* HashMap<String, OktaLinks>
LinkMaps == UNION {[D -> OktaLinks] : D \in SUBSET Relations}

SmsFactorProfile == [phone_number : {"+15551234567"}]
CallFactorProfile == [phone_number : {"+15557654321"}, phone_extension : {None, Some("42")}]
QuestionFactorProfile ==
    [question : {"disliked_food"},
     question_text : {"What is the food you least liked as a child?"},
     answer : {None, Some("liver")}]
TokenFactorProfile == [credential_id : {"cred-0001"}]
WebFactorProfile == [credential_id : {"cred-0002"}]
FactorVerification == [pass_code : {"123456"}, next_pass_code : {None}]

NoProfile == <<>>

ProfilesOf(k) ==
    CASE k = "Push" -> {NoProfile}
      [] k = "Sms" -> SmsFactorProfile
      [] k = "Call" -> CallFactorProfile
      [] k \in {"Token", "Totp", "Hotp"} -> TokenFactorProfile
      [] k = "Question" -> QuestionFactorProfile
      [] k = "Web" -> WebFactorProfile

VerifyOf(k) == IF k \in {"Token", "Hotp"} THEN {None} \cup {Some(v) : v \in FactorVerification}
               ELSE {None}

\* enum Factor: id, provider and status take no part in any operation and
\* are fixed.
Factor ==
    UNION {[kind : {k}, id : {"fid"}, provider : {"OKTA"}, status : {Some("ACTIVE")},
            profile : ProfilesOf(k), links : LinkMaps, verify : VerifyOf(k)] : k \in Kinds}

\* enum FactorVerificationRequest
FactorVerificationRequest ==
    [kind : {"Question"}, answer : Strings]
    \cup [kind : {"Sms"}, state_token : Strings, pass_code : {None} \cup {Some(s) : s \in Strings}]
    \cup [kind : {"Call"}, pass_code : {None} \cup {Some(s) : s \in Strings}]
    \cup [kind : {"Totp"}, pass_code : Strings]
    \cup [kind : {"Token"}, pass_code : Strings]

-----------------------------------------------------------------------------
(* FactorVerificationRequest on the wire (derive Serialize/Deserialize,    *)
(* untagged, camelCase field names).                                       *)

Has(o, k) == k \in DOMAIN o

\* A String field: the key must be present and hold a string.
HasString(o, k) == Has(o, k) /\ IsJStr(o[k])

\* An Option<String> field fits when the key is missing, null or a string.
OptionFits(o, k) == ~Has(o, k) \/ o[k] = JNull \/ IsJStr(o[k])

\* An Option<String> field read back: a missing key and null both give None.
ReadOption(o, k) == IF HasString(o, k) THEN Some(o[k][2]) ELSE None

\* An Option<String> field written without skip_serializing_if: None is
\* written as null.
WriteOption(opt) == IF opt = None THEN JNull ELSE JStr(opt[1])

\* Serialize for FactorVerificationRequest.  Only Sms.pass_code carries
\* skip_serializing_if = "Option::is_none".
to_json(r) ==
    CASE r.kind = "Question" -> ("answer" :> JStr(r.answer))
      [] r.kind = "Sms" ->
            IF r.pass_code = None
            THEN ("stateToken" :> JStr(r.state_token))
            ELSE ("stateToken" :> JStr(r.state_token)) @@ ("passCode" :> JStr(r.pass_code[1]))
      [] r.kind = "Call" -> ("passCode" :> WriteOption(r.pass_code))
      [] r.kind = "Totp" -> ("passCode" :> JStr(r.pass_code))
      [] r.kind = "Token" -> ("passCode" :> JStr(r.pass_code))

DecodeError == [tag |-> "Err", error |-> "serde_json::Error"]
Decoded(v) == [tag |-> "Ok", value |-> v]

\* Deserialize for FactorVerificationRequest: untagged, so the variants are
\* tried in declaration order and the first that fits wins; unknown keys are
\* ignored.
from_json(o) ==
    IF HasString(o, "answer")
    THEN Decoded([kind |-> "Question", answer |-> o["answer"][2]])
    ELSE IF HasString(o, "stateToken") /\ OptionFits(o, "passCode")
    THEN Decoded([kind |-> "Sms", state_token |-> o["stateToken"][2],
                  pass_code |-> ReadOption(o, "passCode")])
    ELSE IF OptionFits(o, "passCode")
    THEN Decoded([kind |-> "Call", pass_code |-> ReadOption(o, "passCode")])
    ELSE IF HasString(o, "passCode")
    THEN Decoded([kind |-> "Totp", pass_code |-> o["passCode"][2]])
    ELSE IF HasString(o, "passCode")
    THEN Decoded([kind |-> "Token", pass_code |-> o["passCode"][2]])
    ELSE DecodeError

JsonValues == {JNull, JNum(7)} \cup {JStr(s) : s \in Strings}

\* JSON objects over the keys the request variants use.
RequestObjects == UNION {[D -> JsonValues] : D \in SUBSET {"answer", "stateToken", "passCode"}}

-----------------------------------------------------------------------------
(* The transport and the login response.                                   *)

Statuses == {200, 204, 300, 400, 500}

\* Response bodies as text.
Bodies ==
    {<<"garbage">>,
     <<"object", EmptyObject>>,
     <<"object", ("status" :> JStr("SUCCESS")) @@ ("sessionToken" :> JStr("s1"))>>,
     <<"object", ("status" :> JStr("MFA_CHALLENGE")) @@ ("stateToken" :> JStr("t1"))>>,
     <<"object", ("status" :> JStr("SUCCESS")) @@ ("sessionToken" :> JNum(7))>>}

NoResponse == [tag |-> "None"]
NetworkFailure == [tag |-> "NetworkFailure"]

\* What the transport does with the one request: it fails, or it delivers a
\* status and a body that is read in full (Some) or not (None).
Outcomes ==
    {NetworkFailure}
    \cup [tag : {"Response"}, status : Statuses, body : {None} \cup {Some(b) : b \in Bodies}]

\* serde_json::from_str::<OktaLoginResponse>: a JSON object with a status;
\* the tokens are optional.
from_str(body) ==
    IF /\ body[1] = "object"
       /\ HasString(body[2], "status")
       /\ OptionFits(body[2], "stateToken")
       /\ OptionFits(body[2], "sessionToken")
    THEN Decoded([status |-> body[2]["status"][2],
                  state_token |-> ReadOption(body[2], "stateToken"),
                  session_token |-> ReadOption(body[2], "sessionToken")])
    ELSE DecodeError

\* error_for_status that lets server errors through.
error_for_status_clientOnly(status) == status \in 400..499

\* Response::error_for_status: client (4xx) and server (5xx) statuses are
\* errors, every other status passes.
error_for_status(status) == status \in 400..599

TransportError == [tag |-> "Err", error |-> "reqwest::Error"]
Unsupported == [tag |-> "Err", error |-> "Unsupported MFA method"]
NoResult == [tag |-> "None"]

-----------------------------------------------------------------------------
(* Factor::verify                                                          *)

Panic == [ok |-> FALSE]
Resolved(u) == [ok |-> TRUE, url |-> u]

\* Resolution that takes the last entry of a Multi.
resolve_lastWins(links) ==
    IF ~Has(links, "verify") THEN Panic
    ELSE LET l == links["verify"] IN
         IF l.kind = "Single" THEN Resolved(l.hrefs[1])
         ELSE IF l.hrefs = <<>> THEN Panic
         ELSE Resolved(l.hrefs[Len(l.hrefs)])

\* links.get("verify").unwrap(), then the href of a Single or of the first
\* of a Multi; either unwrap panics on None.
resolve(links) ==
    IF ~Has(links, "verify") THEN Panic
    ELSE LET l == links["verify"] IN
         IF l.kind = "Single" THEN Resolved(l.hrefs[1])
         ELSE IF l.hrefs = <<>> THEN Panic
         ELSE Resolved(Head(l.hrefs))

\* A match whose first arm also takes Call factors.
IsSmsArm_orCall(f) == f.kind \in {"Sms", "Call"}

\* The arm of the match that handles the factor.
IsSmsArm(f) == f.kind = "Sms"

\* A send that repeats the request.
send_twice(url, req) ==
    LET m == [method |-> "POST", url |-> url, body |-> to_json(req),
              headers |-> {"Content-Type: application/json", "Accept: application/json"}]
    IN <<m, m>>

\* client.post(url).json(&request).header(..).header(..).send(): the
\* requests put on the wire by one call.
send(url, req) ==
    <<[method |-> "POST", url |-> url, body |-> to_json(req),
       headers |-> {"Content-Type: application/json", "Accept: application/json"}]>>

\* send()?.error_for_status()?.text()? and the decoding of the text.
receive(o) ==
    IF o.tag = "NetworkFailure" THEN TransportError
    ELSE IF error_for_status(o.status) THEN TransportError
    ELSE IF o.body = None THEN TransportError
    ELSE from_str(o.body[1])

\* One call of verify under transport outcome o: where the call ends, what it
\* returns, and what it sent.
verify(f, req, o) ==
    IF IsSmsArm(f)
    THEN LET r == resolve(f.links) IN
         IF ~r.ok
         THEN [pc |-> "panicked", result |-> NoResult, wire |-> <<>>]
         ELSE [pc |-> "returned", result |-> receive(o), wire |-> send(r.url, req)]
    ELSE [pc |-> "returned", result |-> Unsupported, wire |-> <<>>]

-----------------------------------------------------------------------------
(* Decoding a Factor (derive Deserialize, tag = "factorType").             *)

FactorTypes == {"push", "sms", "call", "token", "token:software:totp", "token:hardware",
                "question", "web",
                "SMS", "Push", "totp", "hotp", "token:software", "u2f", ""}

FactorKeys == {"id", "provider", "status", "profile", "_links", "verify"}

\* A payload: the factorType it carries, if any, and the other keys it has
\* (each present key holds a value of the declared shape).
Payloads == [factorType : {None} \cup {Some(t) : t \in FactorTypes},
             keys : {K \in SUBSET FactorKeys : {"id", "provider"} \subseteq K}]

\* A decoder that falls back to Push on an unknown factorType.
variant_of_fallback(t) ==
    CASE t = "push" -> Some("Push")
      [] t = "sms" -> Some("Sms")
      [] t = "call" -> Some("Call")
      [] t = "token" -> Some("Token")
      [] t = "token:software:totp" -> Some("Totp")
      [] t = "token:hardware" -> Some("Hotp")
      [] t = "question" -> Some("Question")
      [] t = "web" -> Some("Web")
      [] OTHER -> Some("Push")

\* The variant a factorType names: rename_all = "lowercase" on the enum and
\* the three explicit renames.
variant_of(t) ==
    CASE t = "push" -> Some("Push")
      [] t = "sms" -> Some("Sms")
      [] t = "call" -> Some("Call")
      [] t = "token" -> Some("Token")
      [] t = "token:software:totp" -> Some("Totp")
      [] t = "token:hardware" -> Some("Hotp")
      [] t = "question" -> Some("Question")
      [] t = "web" -> Some("Web")
      [] OTHER -> None

\* The fields of a variant that are not Option.
required(k) ==
    IF k = "Push" THEN {"id", "provider", "_links"}
    ELSE {"id", "provider", "profile", "_links"}

deserialize_factor(p) ==
    IF p.factorType = None THEN DecodeError
    ELSE LET v == variant_of(p.factorType[1]) IN
         IF v = None THEN DecodeError
         ELSE IF required(v[1]) \subseteq p.keys THEN Decoded([kind |-> v[1]])
         ELSE DecodeError

-----------------------------------------------------------------------------
(* impl fmt::Display for Factor                                            *)

RECURSIVE Concat(_)
Concat(ss) == IF ss = <<>> THEN "" ELSE Head(ss) \o Concat(Tail(ss))

\* write!(f, literal, args..): the text written and the values interpolated.
write(literal, args) == [out |-> literal \o Concat(args), args |-> args]

fmt(f) ==
    CASE f.kind = "Push" -> write("Okta Verify Push", <<>>)
      [] f.kind = "Sms" -> write("Okta SMS to ", <<f.profile.phone_number>>)
      [] f.kind = "Call" -> write("Okta Call to ", <<f.profile.phone_number>>)
      [] f.kind = "Token" -> write("Okta One-time Password", <<>>)
      [] f.kind = "Totp" -> write("Okta Time-based One-time Password", <<>>)
      [] f.kind = "Hotp" -> write("Okta Hardware One-time Password", <<>>)
      [] f.kind = "Question" -> write("Question: ", <<f.profile.question>>)
      [] f.kind = "Web" -> write("Okta Web", <<>>)

-----------------------------------------------------------------------------
(* Specifications                                                          *)

NoFactor == [kind |-> "None"]
NoRequest == [kind |-> "None"]
NoPayload == [factorType |-> None, keys |-> {}]

\* A caller holds a Factor and a request and is about to call verify.
Init ==
    /\ self \in Factor
    /\ request \in FactorVerificationRequest
    /\ pc = "call"
    /\ result = NoResult
    /\ wire = <<>>
    /\ response = NoResponse
    /\ transitions = 0
    /\ encoded = None
    /\ decoded = NoResult
    /\ payload = NoPayload
    /\ factor = NoResult
    /\ text = None

\* self.verify(request): the whole call, under one transport outcome.  The
\* outcome is recorded only when a request was sent.
Verify ==
    /\ pc = "call"
    /\ \E o \in Outcomes :
          LET r == verify(self, request, o) IN
          /\ pc' = r.pc
          /\ result' = r.result
          /\ wire' = r.wire
          /\ response' = IF r.wire = <<>> THEN NoResponse ELSE o
    /\ transitions' = transitions + 1
    /\ UNCHANGED <<self, request, encoded, decoded, payload, factor, text>>

Next == Verify

Spec == Init /\ [][Next]_vars

\* A request to encode, or a JSON object to decode.
InitCodec ==
    /\ \/ request \in FactorVerificationRequest /\ encoded = None
       \/ request = NoRequest /\ encoded \in {Some(o) : o \in RequestObjects}
    /\ self = NoFactor
    /\ pc = "idle"
    /\ result = NoResult
    /\ wire = <<>>
    /\ response = NoResponse
    /\ transitions = 0
    /\ decoded = NoResult
    /\ payload = NoPayload
    /\ factor = NoResult
    /\ text = None

Serialize ==
    /\ request # NoRequest
    /\ encoded = None
    /\ encoded' = Some(to_json(request))
    /\ UNCHANGED <<self, request, pc, result, wire, response, transitions,
                   decoded, payload, factor, text>>

Deserialize ==
    /\ encoded # None
    /\ decoded = NoResult
    /\ decoded' = from_json(encoded[1])
    /\ UNCHANGED <<self, request, pc, result, wire, response, transitions,
                   encoded, payload, factor, text>>

NextCodec == Serialize \/ Deserialize

SpecCodec == InitCodec /\ [][NextCodec]_vars

\* A Factor payload to decode.
InitFactor ==
    /\ payload \in Payloads
    /\ factor = NoResult
    /\ self = NoFactor
    /\ request = NoRequest
    /\ pc = "idle"
    /\ result = NoResult
    /\ wire = <<>>
    /\ response = NoResponse
    /\ transitions = 0
    /\ encoded = None
    /\ decoded = NoResult
    /\ text = None

DeserializeFactor ==
    /\ factor = NoResult
    /\ factor' = deserialize_factor(payload)
    /\ UNCHANGED <<self, request, pc, result, wire, response, transitions,
                   encoded, decoded, payload, text>>

NextFactor == DeserializeFactor

SpecFactor == InitFactor /\ [][NextFactor]_vars

\* A Factor to display.
InitDisplay ==
    /\ self \in Factor
    /\ text = None
    /\ request = NoRequest
    /\ pc = "idle"
    /\ result = NoResult
    /\ wire = <<>>
    /\ response = NoResponse
    /\ transitions = 0
    /\ encoded = None
    /\ decoded = NoResult
    /\ payload = NoPayload
    /\ factor = NoResult

Display ==
    /\ text = None
    /\ text' = Some(fmt(self))
    /\ UNCHANGED <<self, request, pc, result, wire, response, transitions,
                   encoded, decoded, payload, factor>>

NextDisplay == Display

SpecDisplay == InitDisplay /\ [][NextDisplay]_vars

-----------------------------------------------------------------------------
(* Properties of Factor::verify, under Spec                                *)

Unverified == pc = "call"
Verified == pc = "returned" /\ result.tag = "Ok"
Rejected == pc = "returned" /\ result = Unsupported
Failed == pc = "returned" /\ result.tag = "Err" /\ result # Unsupported

\* The "verify" relation is missing, or is an empty Multi.
Unresolvable(f) ==
    \/ "verify" \notin DOMAIN f.links
    \/ f.links["verify"].kind = "Multi" /\ f.links["verify"].hrefs = <<>>

\* C1: once verify has run on a Factor of any variant other than Sms, it has
\* returned the unsupported-method error and has sent no request, whatever
\* the request was.
C1_UnsupportedWithoutRequest ==
    (pc # "call" /\ self.kind # "Sms") =>
        (pc = "returned" /\ result = Unsupported /\ wire = <<>> /\ response = NoResponse)

C1_Witness ==
    /\ pc = "returned"
    /\ self.kind = "Push"
    /\ "verify" \in DOMAIN self.links
    /\ request.kind = "Sms"
    /\ result = Unsupported
    /\ wire = <<>>

\* C2: once verify has run on an Sms Factor with a request of a variant other
\* than Sms, the request has been rejected with an error and nothing has been
\* sent.
C2_MismatchedRequestRejected ==
    (pc # "call" /\ self.kind = "Sms" /\ request.kind # "Sms") =>
        (pc = "returned" /\ result.tag = "Err" /\ wire = <<>>)

\* C3: once verify has run on an Sms Factor whose "verify" relation is
\* missing or an empty Multi, it has returned an error, without panicking
\* and without sending a request.
C3_UnresolvableIsTypedError ==
    (pc # "call" /\ self.kind = "Sms" /\ Unresolvable(self)) =>
        (pc = "returned" /\ result.tag = "Err" /\ wire = <<>>)

\* C4: once verify has run on an Sms Factor whose "verify" relation is a
\* Single or a non-empty Multi, the request went to the href of the Single,
\* or of the first entry of the Multi, whatever else the map holds.
C4_FirstWins ==
    (pc # "call" /\ self.kind = "Sms" /\ ~Unresolvable(self)) =>
        /\ wire # <<>>
        /\ \A i \in 1..Len(wire) : wire[i].url = self.links["verify"].hrefs[1]

C4_Witness ==
    /\ pc = "returned"
    /\ self.kind = "Sms"
    /\ self.links["verify"].kind = "Multi"
    /\ Len(self.links["verify"].hrefs) = MaxLinks
    /\ self.links["verify"].hrefs[1] # self.links["verify"].hrefs[MaxLinks]
    /\ "self" \in DOMAIN self.links
    /\ wire # <<>>
    /\ wire[1].url = self.links["verify"].hrefs[1]

DecodableWithin(S) ==
    /\ response.tag = "Response"
    /\ response.status \in S
    /\ response.body # None
    /\ from_str(response.body[1]).tag = "Ok"

C7_OneTransitionToTerminal ==
    /\ Unverified <=> transitions = 0
    /\ ~Unverified =>
          /\ transitions = 1
          /\ Verified \/ Failed \/ Rejected
          /\ ~(Verified /\ Failed) /\ ~(Verified /\ Rejected) /\ ~(Failed /\ Rejected)

-----------------------------------------------------------------------------
(* Properties of the request encoding, under SpecCodec                     *)

\* C8: the JSON object of an Sms or Call request whose pass_code is None has
\* no passCode key, and the object of Sms{state_token: "t", pass_code: None}
\* decodes back to that request.
C8_NoneIsOmitted ==
    /\ (/\ request.kind \in {"Sms", "Call"} /\ request.pass_code = None
        /\ encoded # None) =>
           "passCode" \notin DOMAIN encoded[1]
    /\ (/\ request = [kind |-> "Sms", state_token |-> "t", pass_code |-> None]
        /\ decoded # NoResult) =>
           decoded = Decoded(request)

-----------------------------------------------------------------------------
(* Properties of Factor decoding, under SpecFactor                         *)

\* C9: a decoded payload that has the non-optional keys and has one of the
\* eight known factorType values gave the variant of that value; a payload
\* with any other factorType gave the decode error.
C9_VariantFromDiscriminator ==
    (factor # NoResult /\ payload.factorType # None) =>
        LET t == payload.factorType[1]
            wellFormed == {"id", "provider", "profile", "_links"} \subseteq payload.keys
            expect(tag, kind) == (t = tag /\ wellFormed) => factor = Decoded([kind |-> kind])
        IN /\ expect("push", "Push")
           /\ expect("sms", "Sms")
           /\ expect("call", "Call")
           /\ expect("token", "Token")
           /\ expect("token:software:totp", "Totp")
           /\ expect("token:hardware", "Hotp")
           /\ expect("question", "Question")
           /\ expect("web", "Web")
           /\ t \notin {"push", "sms", "call", "token", "token:software:totp",
                        "token:hardware", "question", "web"} => factor = DecodeError

C9_Witness ==
    /\ payload.factorType = Some("token:hardware")
    /\ payload.keys = {"id", "provider", "profile", "_links"}
    /\ factor = Decoded([kind |-> "Hotp"])

-----------------------------------------------------------------------------
(* Properties of Display, under SpecDisplay                                *)

\* The secret values a Factor carries.
Secrets(f) ==
    (IF f.kind = "Question" THEN {f.profile.answer[i] : i \in 1..Len(f.profile.answer)} ELSE {})
    \cup (IF f.kind \in {"Token", "Totp", "Hotp", "Web"} THEN {f.profile.credential_id} ELSE {})
    \cup (IF f.verify # None THEN {f.verify[1].pass_code} ELSE {})

\* C10: the text of an Sms Factor is "Okta SMS to " and its phone_number, the
\* text of a Question Factor is "Question: " and its question_text, every
\* text interpolates at most one value, and no text interpolates a secret.
C10_DisplayText ==
    text # None =>
        /\ self.kind = "Sms" => text[1].out = "Okta SMS to " \o self.profile.phone_number
        /\ self.kind = "Question" => text[1].out = "Question: " \o self.profile.question_text
        /\ Len(text[1].args) <= 1
        /\ \A i \in 1..Len(text[1].args) : text[1].args[i] \notin Secrets(self)

====
